---- MODULE Spec2Model ----
(***************************************************************************)
(* Model of the Wang filler of Tiled (src/tiled/wangfiller.cpp): the       *)
(* best-match search findBestMatch, the two-phase region fill              *)
(* WangFiller::fillRegion (border seeding, then raster wavefront fill) and *)
(* the single-cell fit WangFiller::findFittingCell.                        *)
(* The filler runs in orthogonal mode (mStaggeredRenderer is null).        *)
(***************************************************************************)
EXTENDS Integers, Sequences, FiniteSets, TLC

(***************************************************************************)
(* Bounds of the model.  The map covers 0..MaxX by 0..MaxY; regions lie in *)
(* its interior, so that every neighbour of a region cell is on the map.   *)
(***************************************************************************)
MaxX == 4
MaxY == 3
MaxCells == 3
MaxColor == 2

INT_MAX == 2147483647

(***************************************************************************)
(* WangId: the 8 slots of terrain colours, index 0..7 = N, NE, E, SE, S,   *)
(* SW, W, NW; colour 0 is "unconstrained".                                 *)
(***************************************************************************)
Indexes == 0 .. 7
Top == 0
Right == 2
Bottom == 4
Left == 6

ZeroWangId == [i \in Indexes |-> 0]
UniformWangId(c) == [i \in Indexes |-> c]
EdgeWangId(n, e, s, w) ==
    [i \in Indexes |-> CASE i = 0 -> n [] i = 2 -> e [] i = 4 -> s [] i = 6 -> w
                         [] OTHER -> 0]

indexColor(wangId, i) == wangId[i]

\* WangId::mask(): the constrained (non-zero) slots.
mask(wangId) == {i \in Indexes : wangId[i] # 0}

\* wangId & mask: the slots outside the mask read as 0.
MaskAnd(wangId, m) == [i \in Indexes |-> IF i \in m THEN wangId[i] ELSE 0]

oppositeIndex(i) == (i + 4) % 8

\* WangId::mergeFromAdjacent: set the one slot facing the adjacent cell.
mergeFromAdjacent(wangId, adjacent, position) ==
    [wangId EXCEPT ![position] = adjacent[oppositeIndex(position)]]

\* WangId::updateToAdjacent: the slot at position takes the colour the
\* adjacent WangId has in the slot facing back.
updateToAdjacent(wangId, adjacent, position) ==
    [wangId EXCEPT ![position] = adjacent[oppositeIndex(position)]]

(***************************************************************************)
(* Points and neighbours.                                                  *)
(***************************************************************************)
\* aroundTilePoints with the entries of NE and NW exchanged.
aroundTilePointsSwapped ==
    [i \in Indexes |->
        CASE i = 0 -> << 0, -1>> [] i = 1 -> <<-1, -1>>
          [] i = 2 -> << 1,  0>> [] i = 3 -> << 1,  1>>
          [] i = 4 -> << 0,  1>> [] i = 5 -> <<-1,  1>>
          [] i = 6 -> <<-1,  0>> [] i = 7 -> << 1, -1>>]

\* The offsets of the 8 surrounding points (lines 31-40).
aroundTilePoints ==
    [i \in Indexes |->
        CASE i = 0 -> << 0, -1>> [] i = 1 -> << 1, -1>>
          [] i = 2 -> << 1,  0>> [] i = 3 -> << 1,  1>>
          [] i = 4 -> << 0,  1>> [] i = 5 -> <<-1,  1>>
          [] i = 6 -> <<-1,  0>> [] i = 7 -> <<-1, -1>>]

PAdd(p, q) == <<p[1] + q[1], p[2] + q[2]>>
PSub(p, q) == <<p[1] - q[1], p[2] - q[2]>>

\* getSurroundingPoints, orthogonal branch.
getSurroundingPoints(point) == [i \in Indexes |-> PAdd(point, aroundTilePoints[i])]

World == (0 .. MaxX) \X (0 .. MaxY)

(***************************************************************************)
(* WangTile and WangSet.  A WangTile is a tile (0 = no tile), its WangId   *)
(* and its probability; a WangSet is its colour count, its WangTiles in    *)
(* the order wangTilesByWangId() enumerates them, and the number of        *)
(* distinct full WangIds among them.                                       *)
(***************************************************************************)
WangTile(t, w, pr) == [tile |-> t, wangId |-> w, probability |-> pr]
NoWangTile == WangTile(0, ZeroWangId, 0)

\* Cell of a WangTile: the tile it holds (0 = the empty cell).
makeCell(wangTile) == wangTile.tile
isEmpty(cell) == cell = 0

\* WangSet::wangIdOfCell: the WangId of the tile of a cell, 0 when the cell
\* is empty or its tile is not in the set.
wangIdOfCell(wangSet, cell) ==
    LET hits == {k \in 1 .. Len(wangSet.tiles) : wangSet.tiles[k].tile = cell}
    IN  IF cell = 0 \/ hits = {} THEN ZeroWangId
        ELSE wangSet.tiles[CHOOSE k \in hits : \A j \in hits : k <= j].wangId

\* The number of distinct full WangIds (no slot 0, colours of the set) among
\* the tiles; a WangSet keeps this count with its tiles.
UniqueFullWangIds(colorCount, tiles) ==
    {tiles[k].wangId : k \in
        {j \in 1 .. Len(tiles) :
            \A i \in Indexes : tiles[j].wangId[i] \in 1 .. colorCount}}

MakeWangSet(colorCount, tiles) ==
    [colorCount |-> colorCount, tiles |-> tiles,
     uniqueFullWangIdCount |-> Cardinality(UniqueFullWangIds(colorCount, tiles))]

\* WangSet::isComplete: every full combination of the set's colours has a tile.
isComplete(wangSet) == wangSet.uniqueFullWangIdCount = wangSet.colorCount ^ 8

(***************************************************************************)
(* RandomPicker: the values added, each with its (positive) probability;   *)
(* pick() may return any of them.                                          *)
(***************************************************************************)
PickerAdd(picker, value, probability) == Append(picker, value)
PickerPick(picker) == {picker[k] : k \in 1 .. Len(picker)}

(***************************************************************************)
(* findBestMatch                                                           *)
(***************************************************************************)
\* PassesFilter that compares the whole WangIds, unmasked.
PassesFilterExact(tileWangId, wangId) == tileWangId = wangId

\* The mask filter of the scan (line 156).
PassesFilter(tileWangId, wangId) ==
    MaskAnd(tileWangId, mask(wangId)) = MaskAnd(wangId, mask(wangId))

\* The penalty loop (lines 159-162).
RECURSIVE PenaltyFrom(_, _, _)
PenaltyFrom(tileWangId, wangId, i) ==
    IF i > 7 THEN 0
    ELSE (IF indexColor(tileWangId, i) # indexColor(wangId, i) THEN 1 ELSE 0)
         + PenaltyFrom(tileWangId, wangId, i + 1)

\* KeepCandidate without the matches.clear() of a strictly lower penalty.
KeepCandidateNoClear(st, wangTile, penalty) ==
    IF penalty <= st.lowestPenalty
    THEN [matches |-> PickerAdd(st.matches, wangTile, wangTile.probability),
          lowestPenalty |-> penalty]
    ELSE st

\* Lines 165-172: keep the candidate when its penalty is the lowest so far.
KeepCandidate(st, wangTile, penalty) ==
    IF penalty <= st.lowestPenalty
    THEN LET base == IF penalty < st.lowestPenalty
                     THEN [matches |-> <<>>, lowestPenalty |-> penalty]
                     ELSE st
         IN  [base EXCEPT !.matches = PickerAdd(@, wangTile, wangTile.probability)]
    ELSE st

\* One iteration of the scan over wangTilesByWangId() (lines 155-173).
ScanStep(st, wangTile, wangId) ==
    IF ~PassesFilter(wangTile.wangId, wangId) THEN st
    ELSE KeepCandidate(st, wangTile, PenaltyFrom(wangTile.wangId, wangId, 0))

\* The scan of tiles[lo..hi] in order, from the state st.
RECURSIVE ScanTiles(_, _, _, _, _)
ScanTiles(tiles, lo, hi, wangId, st) ==
    IF lo > hi THEN st
    ELSE IF lo = hi THEN ScanStep(st, tiles[lo], wangId)
    ELSE LET mid == (lo + hi) \div 2
             half == ScanTiles(tiles, lo, mid, wangId, st)
         IN  IF half.lowestPenalty >= 0   \* always: evaluates the first half first
             THEN ScanTiles(tiles, mid + 1, hi, wangId, half)
             ELSE half

\* ScanStart with lowestPenalty starting at 0 instead of INT_MAX.
ScanStartZero == [matches |-> <<>>, lowestPenalty |-> 0]

\* Lines 151-152: no matches yet, lowestPenalty = INT_MAX.
ScanStart == [matches |-> <<>>, lowestPenalty |-> INT_MAX]

\* The WangTiles findBestMatch may return (one per outcome of pick()).
findBestMatch(wangSet, wangId) ==
    LET st == ScanTiles(wangSet.tiles, 1, Len(wangSet.tiles), wangId, ScanStart)
    IN  IF st.matches # <<>> THEN PickerPick(st.matches) ELSE {NoWangTile}

(***************************************************************************)
(* Regions: the rectangles of a QRegion, in its enumeration order.         *)
(***************************************************************************)
Rect(l, t, r, b) == [left |-> l, top |-> t, right |-> r, bottom |-> b]

RectContains(rect, p) ==
    /\ rect.left <= p[1] /\ p[1] <= rect.right
    /\ rect.top <= p[2] /\ p[2] <= rect.bottom

\* QRegion::contains(point)
contains(rects, p) == \E k \in 1 .. Len(rects) : RectContains(rects[k], p)

RegionCells(rects) == {p \in World : contains(rects, p)}

(***************************************************************************)
(* The state: the arguments of fillRegion, its local position, and the     *)
(* record of what it has done.                                             *)
(***************************************************************************)
VARIABLES
    wangSet,      \* mWangSet
    back,         \* the background layer: point -> cell
    region,       \* the region: its rectangles
    target,       \* the target layer: local point -> cell
    targetPos,    \* target.position()
    wangIds,      \* Grid<WangId>: point -> desired WangId
    pc,           \* "seed", "fill", "done" (fillRegion); "match", "matched"
    rectIdx,      \* the rectangle the current loop is at
    cx, cy,       \* the cell the wavefront loop is at
    visited,      \* the cells the wavefront loop has visited, in order
    placed,       \* the cells it has written a tile to, in order
    seeded,       \* the <<cell, side>> slots border seeding has set
    wangIds0,     \* the grid as passed by the caller
    target0,      \* the target as passed by the caller
    bmQuery,      \* the WangId of the last findBestMatch call
    bmResult,     \* what that call returned
    reported,     \* the coordinates fillRegion has reported to its caller
    fitPoint,     \* findFittingCell: the point asked for
    wangTiles,    \* findFittingCell: the RandomPicker of matching WangTiles
    fitWangTile,  \* findFittingCell: the local wangTile of the while loop
    fitResult,    \* findFittingCell: the cell returned
    draws,        \* the number of take() calls made
    drawn         \* the tiles take() has returned

vars == <<wangSet, back, region, target, targetPos, wangIds, pc, rectIdx, cx, cy,
          visited, placed, seeded, wangIds0, target0, bmQuery, bmResult, reported,
          fitPoint, wangTiles, fitWangTile, fitResult, draws, drawn>>

inputs == <<wangSet, back, region, targetPos, wangIds0, target0>>

\* The state of findFittingCell, the state of fillRegion and findBestMatch.
fitVars == <<fitPoint, wangTiles, fitWangTile, fitResult, draws, drawn>>
fillVars == <<target, wangIds, rectIdx, cx, cy, visited, placed, seeded,
              bmQuery, bmResult, reported>>

\* TileLayer::cellAt: the empty cell outside the layer.
cellAt(layer, p) == IF p \in DOMAIN layer THEN layer[p] ELSE 0

(***************************************************************************)
(* Phase A: border seeding (lines 193-234).                                *)
(***************************************************************************)
\* SeedSide that merges nothing: the grid is left as the caller passed it.
SeedSideNever(g, cell, outside, position) == g

\* SeedSide that writes the whole entry of the cell, not the one slot.
SeedSideReplace(g, cell, outside, position) ==
    IF ~contains(region, outside)
    THEN [ids |-> [g.ids EXCEPT ![cell] =
                      mergeFromAdjacent(ZeroWangId,
                                        wangIdOfCell(wangSet, cellAt(back, outside)),
                                        position)],
          touched |-> g.touched \cup {<<cell, position>>}]
    ELSE g

\* SeedSide without the region.contains test: every side is seeded.
SeedSideAlways(g, cell, outside, position) ==
    [ids |-> [g.ids EXCEPT ![cell] =
                 mergeFromAdjacent(@, wangIdOfCell(wangSet, cellAt(back, outside)),
                                   position)],
     touched |-> g.touched \cup {<<cell, position>>}]

\* One "if (!region.contains(outside))" block: merge the WangId of the
\* background cell at outside into the slot of cell at position.
SeedSide(g, cell, outside, position) ==
    IF ~contains(region, outside)
    THEN [ids |-> [g.ids EXCEPT ![cell] =
                      mergeFromAdjacent(@, wangIdOfCell(wangSet, cellAt(back, outside)),
                                        position)],
          touched |-> g.touched \cup {<<cell, position>>}]
    ELSE g

\* SeedColumns with the slots of the two blocks exchanged.
RECURSIVE SeedColumnsSwapped(_, _, _)
SeedColumnsSwapped(g, rect, x) ==
    IF x > rect.right THEN g
    ELSE LET g1 == SeedSide(g, <<x, rect.top>>, <<x, rect.top - 1>>, Bottom)
             g2 == SeedSide(g1, <<x, rect.bottom>>, <<x, rect.bottom + 1>>, Top)
         IN  SeedColumnsSwapped(g2, rect, x + 1)

\* The loop over x (lines 195-213).
RECURSIVE SeedColumns(_, _, _)
SeedColumns(g, rect, x) ==
    IF x > rect.right THEN g
    ELSE LET g1 == SeedSide(g, <<x, rect.top>>, <<x, rect.top - 1>>, Top)
             g2 == SeedSide(g1, <<x, rect.bottom>>, <<x, rect.bottom + 1>>, Bottom)
         IN  SeedColumns(g2, rect, x + 1)

\* SeedRows whose second block writes the cell of the first.
RECURSIVE SeedRowsLeftCell(_, _, _)
SeedRowsLeftCell(g, rect, y) ==
    IF y > rect.bottom THEN g
    ELSE LET g1 == SeedSide(g, <<rect.left, y>>, <<rect.left - 1, y>>, Left)
             g2 == SeedSide(g1, <<rect.left, y>>, <<rect.right + 1, y>>, Right)
         IN  SeedRowsLeftCell(g2, rect, y + 1)

\* The loop over y (lines 215-233).
RECURSIVE SeedRows(_, _, _)
SeedRows(g, rect, y) ==
    IF y > rect.bottom THEN g
    ELSE LET g1 == SeedSide(g, <<rect.left, y>>, <<rect.left - 1, y>>, Left)
             g2 == SeedSide(g1, <<rect.right, y>>, <<rect.right + 1, y>>, Right)
         IN  SeedRows(g2, rect, y + 1)

SeedRectGrid(g, rect) == SeedRows(SeedColumns(g, rect, rect.left), rect, rect.top)

\* Border seeding of the rectangle at rectIdx: one pass of the first loop.
SeedRect ==
    /\ pc = "seed"
    /\ LET g == SeedRectGrid([ids |-> wangIds, touched |-> seeded], region[rectIdx])
       IN  /\ wangIds' = g.ids
           /\ seeded' = g.touched
    /\ IF rectIdx < Len(region)
       THEN /\ rectIdx' = rectIdx + 1
            /\ UNCHANGED <<pc, cx, cy>>
       ELSE /\ pc' = "fill"
            /\ rectIdx' = 1
            /\ cx' = region[1].left
            /\ cy' = region[1].top
    /\ UNCHANGED <<inputs, fitVars, target, visited, placed, bmQuery, bmResult, reported>>

(***************************************************************************)
(* Phase B: the wavefront fill (lines 239-270).                            *)
(***************************************************************************)
\* Propagate without the isEmpty test: occupied neighbours are adjusted too.
RECURSIVE PropagateAll(_, _, _, _, _)
PropagateAll(ids, layer, point, placedWangId, i) ==
    IF i > 7 THEN ids
    ELSE PropagateAll([ids EXCEPT ![getSurroundingPoints(point)[i]] =
                          updateToAdjacent(@, placedWangId, oppositeIndex(i))],
                      layer, point, placedWangId, i + 1)

\* Propagate whose loop stops one index early (i < 7).
RECURSIVE PropagateSeven(_, _, _, _, _)
PropagateSeven(ids, layer, point, placedWangId, i) ==
    IF i > 6 THEN ids
    ELSE LET p == getSurroundingPoints(point)[i]
         IN  IF ~isEmpty(cellAt(layer, PSub(p, targetPos)))
             THEN PropagateSeven(ids, layer, point, placedWangId, i + 1)
             ELSE PropagateSeven([ids EXCEPT ![p] =
                                     updateToAdjacent(@, placedWangId, oppositeIndex(i))],
                                 layer, point, placedWangId, i + 1)

\* Propagate that passes the index i itself, not its opposite.
RECURSIVE PropagateSameIndex(_, _, _, _, _)
PropagateSameIndex(ids, layer, point, placedWangId, i) ==
    IF i > 7 THEN ids
    ELSE LET p == getSurroundingPoints(point)[i]
         IN  IF ~isEmpty(cellAt(layer, PSub(p, targetPos)))
             THEN PropagateSameIndex(ids, layer, point, placedWangId, i + 1)
             ELSE PropagateSameIndex([ids EXCEPT ![p] =
                                         updateToAdjacent(@, placedWangId, i)],
                                     layer, point, placedWangId, i + 1)

\* Lines 259-267: adjust the desired WangIds of the surrounding cells that
\* are empty in the target, from index i on.
RECURSIVE Propagate(_, _, _, _, _)
Propagate(ids, layer, point, placedWangId, i) ==
    IF i > 7 THEN ids
    ELSE LET p == getSurroundingPoints(point)[i]
         IN  IF ~isEmpty(cellAt(layer, PSub(p, targetPos)))
             THEN Propagate(ids, layer, point, placedWangId, i + 1)
             ELSE Propagate([ids EXCEPT ![p] =
                                updateToAdjacent(@, placedWangId, oppositeIndex(i))],
                            layer, point, placedWangId, i + 1)

\* Advance with the loops over x and y exchanged: down a column first.
AdvanceColumnMajor ==
    LET rect == region[rectIdx]
    IN  IF cy < rect.bottom
        THEN /\ cy' = cy + 1
             /\ UNCHANGED <<cx, rectIdx, pc>>
        ELSE IF cx < rect.right
        THEN /\ cx' = cx + 1
             /\ cy' = rect.top
             /\ UNCHANGED <<rectIdx, pc>>
        ELSE IF rectIdx < Len(region)
        THEN /\ rectIdx' = rectIdx + 1
             /\ cx' = region[rectIdx + 1].left
             /\ cy' = region[rectIdx + 1].top
             /\ UNCHANGED pc
        ELSE /\ pc' = "done"
             /\ UNCHANGED <<rectIdx, cx, cy>>

\* The three nested loops step to the next cell, or fillRegion returns
\* (void: nothing is reported).
Advance ==
    LET rect == region[rectIdx]
    IN  IF cx < rect.right
        THEN /\ cx' = cx + 1
             /\ UNCHANGED <<cy, rectIdx, pc>>
        ELSE IF cy < rect.bottom
        THEN /\ cx' = rect.left
             /\ cy' = cy + 1
             /\ UNCHANGED <<rectIdx, pc>>
        ELSE IF rectIdx < Len(region)
        THEN /\ rectIdx' = rectIdx + 1
             /\ cx' = region[rectIdx + 1].left
             /\ cy' = region[rectIdx + 1].top
             /\ UNCHANGED pc
        ELSE /\ pc' = "done"
             /\ UNCHANGED <<rectIdx, cx, cy>>

\* PlaceCell that writes at the map coordinate, not at the coordinate local
\* to the target layer.
PlaceCellNoOffset ==
    /\ pc = "fill"
    /\ \E wangTile \in findBestMatch(wangSet, wangIds[<<cx, cy>>]) :
          /\ wangTile.tile # 0
          /\ bmQuery' = wangIds[<<cx, cy>>]
          /\ bmResult' = wangTile
          /\ target' = [target EXCEPT ![<<cx, cy>>] = makeCell(wangTile)]
          /\ wangIds' = Propagate(wangIds, target', <<cx, cy>>, wangTile.wangId, 0)
    /\ visited' = Append(visited, <<cx, cy>>)
    /\ placed' = Append(placed, <<cx, cy>>)
    /\ Advance
    /\ UNCHANGED <<inputs, fitVars, seeded, reported>>

\* One pass of the loop body in which findBestMatch returns a tile:
\* the tile is written and the surrounding WangIds are adjusted.
PlaceCell ==
    /\ pc = "fill"
    /\ \E wangTile \in findBestMatch(wangSet, wangIds[<<cx, cy>>]) :
          /\ wangTile.tile # 0
          /\ bmQuery' = wangIds[<<cx, cy>>]
          /\ bmResult' = wangTile
          /\ target' = [target EXCEPT ![PSub(<<cx, cy>>, targetPos)] = makeCell(wangTile)]
          /\ wangIds' = Propagate(wangIds, target', <<cx, cy>>, wangTile.wangId, 0)
    /\ visited' = Append(visited, <<cx, cy>>)
    /\ placed' = Append(placed, <<cx, cy>>)
    /\ Advance
    /\ UNCHANGED <<inputs, fitVars, seeded, reported>>

\* SkipCell that leaves the loops (return instead of continue).
SkipCellReturn ==
    /\ pc = "fill"
    /\ \E wangTile \in findBestMatch(wangSet, wangIds[<<cx, cy>>]) :
          /\ wangTile.tile = 0
          /\ bmQuery' = wangIds[<<cx, cy>>]
          /\ bmResult' = wangTile
    /\ visited' = Append(visited, <<cx, cy>>)
    /\ pc' = "done"
    /\ UNCHANGED <<inputs, fitVars, target, wangIds, placed, seeded, reported, rectIdx, cx, cy>>

\* One pass of the loop body in which findBestMatch returns no tile
\* (lines 244-247: continue).
SkipCell ==
    /\ pc = "fill"
    /\ \E wangTile \in findBestMatch(wangSet, wangIds[<<cx, cy>>]) :
          /\ wangTile.tile = 0
          /\ bmQuery' = wangIds[<<cx, cy>>]
          /\ bmResult' = wangTile
    /\ visited' = Append(visited, <<cx, cy>>)
    /\ Advance
    /\ UNCHANGED <<inputs, fitVars, target, wangIds, placed, seeded, reported>>

(***************************************************************************)
(* The inputs the model draws from.                                        *)
(***************************************************************************)
\* No tiles at all.
CatEmpty == MakeWangSet(1, <<>>)

\* One tile per colour, all 8 slots of that colour (tile A = colour 1,
\* tile B = colour 2, ...).
CatUniform ==
    MakeWangSet(MaxColor, [n \in 1 .. MaxColor |-> WangTile(n, UniformWangId(n), 1)])

\* Exactly two tiles: A, all 8 slots colour 1, and B, all 8 slots colour 2,
\* each of weight 1.
CatAB ==
    MakeWangSet(2, << WangTile(1, UniformWangId(1), 1),
                  WangTile(2, UniformWangId(2), 1) >>)

\* A "cross" set of two colours: the 16 edge combinations, corners wildcard.
CatCross ==
    MakeWangSet(2, [n \in 1 .. 16 |->
        WangTile(n, EdgeWangId(1 + ((n - 1) % 2), 1 + (((n - 1) \div 2) % 2),
                               1 + (((n - 1) \div 4) % 2), 1 + (((n - 1) \div 8) % 2)),
                 1)])

\* An incomplete set whose tiles leave different slots unconstrained.
CatMixed ==
    MakeWangSet(2, << WangTile(1, UniformWangId(1), 1),
                  WangTile(2, EdgeWangId(1, 1, 1, 1), 2),
                  WangTile(3, EdgeWangId(1, 2, 1, 2), 1),
                  WangTile(4, EdgeWangId(1, 0, 0, 0), 1),
                  WangTile(5, EdgeWangId(1, 1, 2, 1), 1),
                  WangTile(6, UniformWangId(2), 3) >>)

\* The complete sets of one and of two colours.
CatComplete1 == MakeWangSet(1, << WangTile(1, UniformWangId(1), 1) >>)
CatComplete2 ==
    MakeWangSet(2, [n \in 1 .. 256 |->
        WangTile(n, [i \in Indexes |-> 1 + (((n - 1) \div (2 ^ i)) % 2)], 1)])

Reversed(ws) ==
    [ws EXCEPT !.tiles = [k \in 1 .. Len(ws.tiles) |-> ws.tiles[Len(ws.tiles) + 1 - k]]]

Catalogs ==
    {CatEmpty, CatAB, CatUniform, CatCross, CatMixed, CatComplete1, CatComplete2}

\* The regions of one or two rectangles inside the map, as QRegion keeps them:
\* disjoint bands from top to bottom, left to right within a band, rectangles
\* of one band not touching, adjacent bands of different extent.
Rects ==
    {Rect(l, t, r, b) : l \in 1 .. MaxX - 1, t \in 1 .. MaxY - 1,
                        r \in 1 .. MaxX - 1, b \in 1 .. MaxY - 1}
Area(rect) == (rect.right - rect.left + 1) * (rect.bottom - rect.top + 1)
ValidRect(rect) == rect.left <= rect.right /\ rect.top <= rect.bottom
ValidPair(r1, r2) ==
    \/ /\ r1.top = r2.top /\ r1.bottom = r2.bottom
       /\ r1.right + 1 < r2.left
    \/ /\ r1.bottom < r2.top
       /\ (r1.bottom + 1 = r2.top) => (r1.left # r2.left \/ r1.right # r2.right)
RegionsUpTo(n) ==
    {<<r>> : r \in {q \in Rects : ValidRect(q) /\ Area(q) <= n}}
    \cup {<<pr[1], pr[2]>> : pr \in
            {q \in Rects \X Rects :
                /\ ValidRect(q[1]) /\ ValidRect(q[2])
                /\ ValidPair(q[1], q[2])
                /\ Area(q[1]) + Area(q[2]) <= n}}
Regions == RegionsUpTo(MaxCells)

\* Backgrounds: one tile everywhere, or one tile above a row and another
\* from that row on.  0 is the empty cell.
\* The cross set is not filled over the empty background, where every cell
\* is free to take any of its tiles.
BackTiles(ws) ==
    IF ws.tiles = <<>> THEN {0}
    ELSE {ws.tiles[1].tile, ws.tiles[Len(ws.tiles)].tile}
         \cup (IF Len(ws.tiles) = 16 THEN {} ELSE {0})
Backgrounds(ws) ==
    {[p \in World |-> t] : t \in BackTiles(ws)}
    \cup {[p \in World |-> IF p[2] < cut THEN ws.tiles[1].tile
                                           ELSE ws.tiles[Len(ws.tiles)].tile] :
            cut \in IF ws.tiles = <<>> THEN {} ELSE 1 .. MaxY}

\* Caller's grids: empty, or the edges of every region cell set to a colour.
EmptyGrid == [p \in World |-> ZeroWangId]
SeedGrids(ws, rects) ==
    {EmptyGrid,
     [p \in World |-> IF contains(rects, p)
                      THEN EdgeWangId(ws.colorCount, ws.colorCount,
                                      ws.colorCount, ws.colorCount)
                      ELSE ZeroWangId]}

\* Targets: a layer at the origin with no tiles, or a layer at <<1, 1>>
\* that already holds tile 1 on every other cell.
LayerPoints(pos) == {PSub(p, pos) : p \in World}
Targets ==
    { [pos |-> <<0, 0>>, layer |-> [q \in LayerPoints(<<0, 0>>) |-> 0]],
      [pos |-> <<1, 1>>,
       layer |-> [q \in LayerPoints(<<1, 1>>) |-> IF (q[1] + q[2]) % 2 = 1 THEN 1 ELSE 0]] }

\* The set of 256 tiles is filled over regions of one cell, and over regions
\* of two cells with the caller's grid and the target empty and one tile on
\* all of the background.  The sets of at most one tile, where no cell has
\* a choice, are filled over regions of one cell more than the others.
CellLimit(ws) ==
    IF Len(ws.tiles) > 16 THEN 2
    ELSE IF Len(ws.tiles) <= 1 THEN MaxCells + 1
    ELSE MaxCells
Plain(ws, rects) == Len(ws.tiles) > 16 /\ Cardinality(RegionCells(rects)) > 1

(***************************************************************************)
(* fillRegion(target, back, wangIds, region)                               *)
(***************************************************************************)
Init ==
    /\ wangSet \in Catalogs
    /\ region \in RegionsUpTo(CellLimit(wangSet))
    /\ back \in Backgrounds(wangSet)
    /\ wangIds0 \in SeedGrids(wangSet, region)
    /\ \E t \in Targets : targetPos = t.pos /\ target0 = t.layer
    /\ Plain(wangSet, region) =>
          /\ wangIds0 = EmptyGrid
          /\ targetPos = <<0, 0>>
          /\ \A p \in World : back[p] = back[<<0, 0>>] /\ back[p] # 0
    /\ target = target0
    /\ wangIds = wangIds0
    /\ pc = "seed"
    /\ rectIdx = 1
    /\ cx = 0
    /\ cy = 0
    /\ visited = <<>>
    /\ placed = <<>>
    /\ seeded = {}
    /\ bmQuery = ZeroWangId
    /\ bmResult = NoWangTile
    /\ reported = {}
    /\ fitPoint = <<0, 0>>
    /\ wangTiles = <<>>
    /\ fitWangTile = NoWangTile
    /\ fitResult = 0
    /\ draws = 0
    /\ drawn = {}

Next == SeedRect \/ PlaceCell \/ SkipCell

Spec == Init /\ [][Next]_vars

(***************************************************************************)
(* findBestMatch on its own: one call on a WangSet and a WangId drawn from *)
(* the sets below.                                                         *)
(***************************************************************************)
MatchCatalogs ==
    {CatEmpty, CatUniform, CatCross, CatMixed, CatComplete1,
     Reversed(CatUniform), Reversed(CatMixed), Reversed(CatCross)}

\* The WangIds asked for: any colours on the edges, opposite corners alike.
MatchQueries ==
    {w \in [Indexes -> 0 .. MaxColor] : w[1] = w[5] /\ w[3] = w[7]}

InitMatch ==
    /\ wangSet \in MatchCatalogs
    /\ bmQuery \in MatchQueries
    /\ bmResult = NoWangTile
    /\ pc = "match"
    /\ region = << Rect(1, 1, 1, 1) >>
    /\ back = [p \in World |-> 0]
    /\ targetPos = <<0, 0>>
    /\ target0 = [q \in LayerPoints(<<0, 0>>) |-> 0]
    /\ target = target0
    /\ wangIds0 = EmptyGrid
    /\ wangIds = EmptyGrid
    /\ rectIdx = 1
    /\ cx = 0
    /\ cy = 0
    /\ visited = <<>>
    /\ placed = <<>>
    /\ seeded = {}
    /\ reported = {}
    /\ fitPoint = <<0, 0>>
    /\ wangTiles = <<>>
    /\ fitWangTile = NoWangTile
    /\ fitResult = 0
    /\ draws = 0
    /\ drawn = {}

BestMatch ==
    /\ pc = "match"
    /\ bmResult' \in findBestMatch(wangSet, bmQuery)
    /\ pc' = "matched"
    /\ UNCHANGED <<inputs, fitVars, target, wangIds, rectIdx, cx, cy, visited, placed,
                   seeded, bmQuery, reported>>

NextMatch == BestMatch

SpecMatch == InitMatch /\ [][NextMatch]_vars

(***************************************************************************)
(* findFittingCell(back, front, fillRegion, point) (lines 76-137).  The    *)
(* front layer is target at targetPos, the fill region is region.          *)
(***************************************************************************)
\* getCell (lines 273-282): the front layer inside the fill region, the
\* background outside it.
getCell(p) ==
    IF contains(region, p) THEN cellAt(target, PSub(p, targetPos))
    ELSE cellAt(back, p)

\* WangSet::wangIdFromSurrounding: slot i takes the colour the tile of
\* surrounding cell i has in the slot facing back.
wangIdFromSurrounding(ws, surroundingCells) ==
    [i \in Indexes |-> wangIdOfCell(ws, surroundingCells[i])[oppositeIndex(i)]]

\* wangIdFromSurroundings(back, front, fillRegion, point) (lines 284-297):
\* the array of the 8 surrounding cells is filled, then handed to the set.
wangIdFromSurroundings(p) ==
    CHOOSE wangId \in
        {wangIdFromSurrounding(wangSet, surroundingCells) :
            surroundingCells \in
                {[i \in Indexes |-> getCell(getSurroundingPoints(p)[i])]}} : TRUE

\* WangSet::findMatchingWangTiles: the tiles equal to wangId on its mask.
findMatchingWangTiles(ws, wangId) ==
    SelectSeq(ws.tiles, LAMBDA t : MaskAnd(t.wangId, mask(wangId)) = wangId)

\* WangSet::wangTileProbability.
wangTileProbability(ws, wangTile) == wangTile.probability

\* WangSet::wildWangIdIsUsed: some tile equals wangId on its mask.
wildWangIdIsUsed(ws, wangId) ==
    \E k \in 1 .. Len(ws.tiles) : MaskAnd(ws.tiles[k].wangId, mask(wangId)) = wangId

\* RandomPicker::take: any of the values may be drawn; it is removed.
PickerWithout(picker, k) ==
    [j \in 1 .. Len(picker) - 1 |-> IF j < k THEN picker[j] ELSE picker[j + 1]]

\* Lines 86-87: the picker of the tiles of wangTilesList.
RECURSIVE AddAll(_, _, _, _)
AddAll(ws, picker, wangTilesList, k) ==
    IF k > Len(wangTilesList) THEN picker
    ELSE AddAll(ws, PickerAdd(picker, wangTilesList[k],
                              wangTileProbability(ws, wangTilesList[k])),
                wangTilesList, k + 1)

\* continueFlag that hands updateToAdjacent the index i, not its opposite.
RECURSIVE continueFlagSameIndex(_, _, _)
continueFlagSameIndex(wangTile, p, i) ==
    IF i > 7 THEN FALSE
    ELSE LET adjacentPoint == getSurroundingPoints(p)[i]
         IN  IF ~isEmpty(getCell(adjacentPoint))
             THEN continueFlagSameIndex(wangTile, p, i + 1)
             ELSE IF \E adjacentWangId \in
                         {updateToAdjacent(wangIdFromSurroundings(adjacentPoint),
                                           wangTile.wangId, i)} :
                         ~wildWangIdIsUsed(wangSet, adjacentWangId)
                  THEN TRUE
                  ELSE continueFlagSameIndex(wangTile, p, i + 1)

\* The for loop over the 8 adjacent points, from index i on (lines 112-129):
\* TRUE when an empty adjacent point could not be filled next to wangTile.
RECURSIVE continueFlag(_, _, _)
continueFlag(wangTile, p, i) ==
    IF i > 7 THEN FALSE
    ELSE LET adjacentPoint == getSurroundingPoints(p)[i]
         IN  IF ~isEmpty(getCell(adjacentPoint))
             THEN continueFlag(wangTile, p, i + 1)
             ELSE IF \E adjacentWangId \in
                         {updateToAdjacent(wangIdFromSurroundings(adjacentPoint),
                                           wangTile.wangId, oppositeIndex(i))} :
                         ~wildWangIdIsUsed(wangSet, adjacentWangId)
                  THEN TRUE
                  ELSE continueFlag(wangTile, p, i + 1)

\* Lines 81-99: the picker is filled; nothing matches and the empty cell is
\* returned, or the set is complete and a picked tile is returned, or the
\* while loop is entered.
FitStart ==
    /\ pc = "fit"
    /\ LET wangId == wangIdFromSurroundings(fitPoint)
           wangTilesList == findMatchingWangTiles(wangSet, wangId)
           picker == AddAll(wangSet, <<>>, wangTilesList, 1)
       IN  IF picker = <<>>
           THEN /\ fitResult' = 0
                /\ pc' = "fitted"
                /\ UNCHANGED <<wangTiles, fitWangTile>>
           ELSE IF isComplete(wangSet)
           THEN /\ \E wangTile \in PickerPick(picker) : fitResult' = makeCell(wangTile)
                /\ wangTiles' = picker
                /\ pc' = "fitted"
                /\ UNCHANGED fitWangTile
           ELSE /\ wangTiles' = picker
                /\ pc' = "loop"
                /\ UNCHANGED <<fitWangTile, fitResult>>
    /\ UNCHANGED <<inputs, fillVars, fitPoint, draws, drawn>>

\* FitDraw whose take() leaves the drawn tile in the picker.
FitDrawNoRemove ==
    /\ pc = "loop"
    /\ wangTiles # <<>>
    /\ draws <= Len(wangSet.tiles)
    /\ \E k \in 1 .. Len(wangTiles) :
          LET wangTile == wangTiles[k]
              rest == wangTiles
              flag == continueFlag(wangTile, fitPoint, 0)
          IN  /\ fitWangTile' = wangTile
              /\ wangTiles' = rest
              /\ draws' = draws + 1
              /\ drawn' = drawn \cup {wangTile.tile}
              /\ IF flag /\ rest # <<>>
                 THEN /\ pc' = "loop"
                      /\ UNCHANGED fitResult
                 ELSE /\ pc' = "fitted"
                      /\ fitResult' = makeCell(wangTile)
    /\ UNCHANGED <<inputs, fillVars, fitPoint>>

\* FitDraw that returns the empty cell when the picker runs out.
FitDrawNoneWhenExhausted ==
    /\ pc = "loop"
    /\ wangTiles # <<>>
    /\ draws <= Len(wangSet.tiles)
    /\ \E k \in 1 .. Len(wangTiles) :
          LET wangTile == wangTiles[k]
              rest == PickerWithout(wangTiles, k)
              flag == continueFlag(wangTile, fitPoint, 0)
          IN  /\ fitWangTile' = wangTile
              /\ wangTiles' = rest
              /\ draws' = draws + 1
              /\ drawn' = drawn \cup {wangTile.tile}
              /\ IF flag /\ rest # <<>>
                 THEN /\ pc' = "loop"
                      /\ UNCHANGED fitResult
                 ELSE /\ pc' = "fitted"
                      /\ fitResult' = IF flag THEN 0 ELSE makeCell(wangTile)
    /\ UNCHANGED <<inputs, fillVars, fitPoint>>

\* One pass of the while loop (lines 103-134): a tile is taken from the
\* picker and its adjacent points are checked; the loop goes on when one of
\* them could not be filled and the picker has tiles left, else the tile is
\* returned (line 136).  The number of passes is capped by the number of
\* tiles of the set.
FitDraw ==
    /\ pc = "loop"
    /\ wangTiles # <<>>
    /\ draws <= Len(wangSet.tiles)
    /\ \E k \in 1 .. Len(wangTiles) :
          LET wangTile == wangTiles[k]
              rest == PickerWithout(wangTiles, k)
              flag == continueFlag(wangTile, fitPoint, 0)
          IN  /\ fitWangTile' = wangTile
              /\ wangTiles' = rest
              /\ draws' = draws + 1
              /\ drawn' = drawn \cup {wangTile.tile}
              /\ IF flag /\ rest # <<>>
                 THEN /\ pc' = "loop"
                      /\ UNCHANGED fitResult
                 ELSE /\ pc' = "fitted"
                      /\ fitResult' = makeCell(wangTile)
    /\ UNCHANGED <<inputs, fillVars, fitPoint>>

\* An incomplete set no tile of which can stand to the right of another:
\* every tile has colour 1 on its right edge and colour 2 on its left edge.
CatOneWay ==
    MakeWangSet(2, << WangTile(1, EdgeWangId(1, 1, 1, 2), 1),
                  WangTile(2, EdgeWangId(2, 1, 2, 2), 2),
                  WangTile(3, EdgeWangId(1, 1, 2, 2), 1) >>)

\* The sets findFittingCell is asked on.
FitCatalogs == {CatEmpty, CatAB, CatUniform, CatMixed, CatComplete1, CatOneWay}

\* Front layers: the targets of fillRegion, and a layer that holds the last
\* tile of the set in every other column.
FitFronts(ws) ==
    Targets \cup
    (IF ws.tiles = <<>> THEN {}
     ELSE {[pos |-> <<0, 0>>,
            layer |-> [q \in LayerPoints(<<0, 0>>) |->
                          IF q[1] % 2 = 0 THEN ws.tiles[Len(ws.tiles)].tile ELSE 0]]})

InitFit ==
    /\ wangSet \in FitCatalogs
    /\ region \in Regions
    /\ back \in Backgrounds(wangSet)
    /\ \E t \in FitFronts(wangSet) : targetPos = t.pos /\ target0 = t.layer
    /\ target = target0
    /\ fitPoint \in RegionCells(region)
    /\ pc = "fit"
    /\ wangTiles = <<>>
    /\ fitWangTile = NoWangTile
    /\ fitResult = 0
    /\ draws = 0
    /\ drawn = {}
    /\ wangIds0 = EmptyGrid
    /\ wangIds = EmptyGrid
    /\ rectIdx = 1
    /\ cx = 0
    /\ cy = 0
    /\ visited = <<>>
    /\ placed = <<>>
    /\ seeded = {}
    /\ bmQuery = ZeroWangId
    /\ bmResult = NoWangTile
    /\ reported = {}

NextFit == FitStart \/ FitDraw

SpecFit == InitFit /\ [][NextFit]_vars

(***************************************************************************)
(* A call of fillRegion or of findFittingCell, run to its end: the calls   *)
(* are synchronous and single-threaded, so a step that can be taken is     *)
(* taken.                                                                  *)
(***************************************************************************)
\* The calls followed to their end, with the layer at the origin: fillRegion
\* on the sets of at most two tiles with an empty grid from the caller,
\* findFittingCell on the sets of two and three tiles and on the complete
\* set of one colour.
InitCall ==
    \/ /\ Init
       /\ wangSet \in {CatEmpty, CatAB}
       /\ wangIds0 = EmptyGrid
       /\ targetPos = <<0, 0>>
    \/ /\ InitFit
       /\ wangSet \in {CatAB, CatOneWay, CatComplete1}
       /\ targetPos = <<0, 0>>

NextCall == SeedRect \/ PlaceCell \/ SkipCell \/ FitStart \/ FitDraw

SpecFair == InitCall /\ [][NextCall]_vars /\ WF_vars(NextCall)

(***************************************************************************)
(* Properties of findBestMatch.                                            *)
(***************************************************************************)
TileSet(ws) == {ws.tiles[k] : k \in 1 .. Len(ws.tiles)}

\* The candidate agrees with the input on every slot the input fixes.
Agrees(candidateId, wangId) ==
    \A i \in Indexes : wangId[i] # 0 => candidateId[i] = wangId[i]

\* The number of the 8 slots in which the two differ.
Differ(candidateId, wangId) == Cardinality({i \in Indexes : candidateId[i] # wangId[i]})

Passing(ws, wangId) == {t \in TileSet(ws) : Agrees(t.wangId, wangId)}

Best(ws, wangId) ==
    {t \in Passing(ws, wangId) :
        \A u \in Passing(ws, wangId) : Differ(t.wangId, wangId) <= Differ(u.wangId, wangId)}

\* C1: a tile returned by findBestMatch agrees with the input on the input's
\* mask and has the least number of differing slots among the candidates that
\* agree; each such candidate is a possible result and no other is.
C1_BestMatchIsMinPenalty ==
    pc = "matched" =>
        /\ bmResult.tile # 0 => bmResult \in Best(wangSet, bmQuery)
        /\ Best(wangSet, bmQuery) # {} =>
              findBestMatch(wangSet, bmQuery) = Best(wangSet, bmQuery)

\* A tie of two least-penalty candidates, with a worse candidate passing too.
C1_Witness ==
    /\ pc = "matched"
    /\ bmResult.tile # 0
    /\ Cardinality(Best(wangSet, bmQuery)) >= 2
    /\ Passing(wangSet, bmQuery) # Best(wangSet, bmQuery)

\* C5: findBestMatch returns no tile exactly when the set has no tiles or no
\* candidate passes the mask filter.
C5_NoneIffNoCandidatePasses ==
    pc = "matched" =>
        ( bmResult.tile = 0 <=>
            (wangSet.tiles = <<>> \/ Passing(wangSet, bmQuery) = {}) )

\* No tile from a set that has tiles, none of which passes the filter.
C5_Witness ==
    /\ pc = "matched"
    /\ bmResult = NoWangTile
    /\ wangSet.tiles # <<>>
    /\ bmQuery # ZeroWangId

(***************************************************************************)
(* Properties of fillRegion.                                               *)
(***************************************************************************)
Orthogonal == {Top, Right, Bottom, Left}
Cells == RegionCells(region)
Neighbour(p, i) == PAdd(p, aroundTilePoints[i])
Range(seq) == {seq[k] : k \in 1 .. Len(seq)}

\* The WangId of the tile the target holds at p, of the background tile at p.
TargetWangId(p) == wangIdOfCell(wangSet, cellAt(target, PSub(p, targetPos)))
BackWangId(p) == wangIdOfCell(wangSet, cellAt(back, p))

\* Every region cell was empty in the target when fillRegion was called.
RegionEmptyBefore == \A p \in Cells : isEmpty(cellAt(target0, PSub(p, targetPos)))

\* C2: after a fill of a region that was empty in the target, of two adjacent
\* cells that both got a tile, the later tile has in its slot facing the
\* earlier cell the colour the earlier tile has in its slot facing the later
\* cell, if that colour is not 0.
C2_AdjacentTilesMatch ==
    (pc = "done" /\ RegionEmptyBefore) =>
        \A a \in 1 .. Len(placed) : \A b \in 1 .. Len(placed) : \A i \in Indexes :
            (a < b /\ placed[b] = Neighbour(placed[a], i)
                   /\ TargetWangId(placed[a])[i] # 0)
            => TargetWangId(placed[b])[oppositeIndex(i)] = TargetWangId(placed[a])[i]

\* Two adjacent cells were given different tiles whose facing colours are set.
C2_Witness ==
    /\ pc = "done" /\ RegionEmptyBefore
    /\ \E a \in 1 .. Len(placed) : \E b \in 1 .. Len(placed) : \E i \in Indexes :
          /\ a < b /\ placed[b] = Neighbour(placed[a], i)
          /\ TargetWangId(placed[a])[i] # 0
          /\ TargetWangId(placed[a]) # TargetWangId(placed[b])

C4_CompleteSetAlwaysMatches ==
    isComplete(wangSet) =>
        /\ pc = "fill" => NoWangTile \notin findBestMatch(wangSet, wangIds[<<cx, cy>>])
        /\ visited # <<>> => bmResult.tile # 0
        /\ placed = visited

\* A complete set of two colours, two cells filled, the second under a
\* constraint the first placement propagated.
C4_Witness ==
    /\ pc = "done" /\ Len(placed) = 2
    /\ wangSet.colorCount = 2 /\ isComplete(wangSet)
    /\ \E i \in Indexes : /\ placed[2] = Neighbour(placed[1], i)
                           /\ bmQuery[oppositeIndex(i)] = TargetWangId(placed[1])[i]

\* The background cells around the region all have colour k on their edges.
UniformBackground(k) ==
    \A p \in World \ Cells : \A d \in Orthogonal : BackWangId(p)[d] = k

\* C6: around a region in a background of one colour k, with an empty grid
\* from the caller, after border seeding every slot of a region cell that
\* faces an orthogonal neighbour outside the region has colour k.
C6_UniformBackgroundSeedsK ==
    \A k \in 1 .. MaxColor :
        (pc = "fill" /\ visited = <<>> /\ wangIds0 = EmptyGrid /\ UniformBackground(k)) =>
            \A c \in Cells : \A d \in Orthogonal :
                ~contains(region, Neighbour(c, d)) => wangIds[c][d] = k

\* Border seeding done for a region of two rectangles in a background of colour 2.
C6_Witness ==
    /\ pc = "fill" /\ visited = <<>> /\ wangIds0 = EmptyGrid
    /\ UniformBackground(2)
    /\ Len(region) = 2 /\ Cardinality(Cells) = MaxCells

\* C7: border seeding sets the slot of a side of a region cell if and only if
\* the orthogonal neighbour on that side is not in the region: a seeded slot
\* holds the colour of the background tile there, every other edge slot is as
\* the caller passed it.
C7_SeededIffNeighbourOutside ==
    pc \in {"fill", "done"} =>
        /\ seeded = {s \in Cells \X Orthogonal : ~contains(region, Neighbour(s[1], s[2]))}
        /\ visited = <<>> =>
              \A c \in Cells : \A d \in Orthogonal :
                  wangIds[c][d] = IF ~contains(region, Neighbour(c, d))
                                  THEN BackWangId(Neighbour(c, d))[oppositeIndex(d)]
                                  ELSE wangIds0[c][d]

\* Two rectangles of one band with a one-cell gap of background between them,
\* the caller's grid set, both sides of the gap seeded from the gap's tile.
C7_Witness ==
    /\ pc = "fill" /\ visited = <<>>
    /\ Len(region) = 2
    /\ region[1].top = region[2].top
    /\ region[1].right + 2 = region[2].left
    /\ wangIds0 # EmptyGrid
    /\ LET gap == <<region[1].right + 1, region[1].top>>
       IN  /\ BackWangId(gap)[Left] # 0
           /\ BackWangId(gap)[Left] # wangIds0[<<region[1].right, region[1].top>>][Right]
           /\ wangIds[<<region[1].right, region[1].top>>][Right] = BackWangId(gap)[Left]
           /\ wangIds[<<region[2].left, region[2].top>>][Left] = BackWangId(gap)[Right]

\* C8: once the wavefront loop has written a tile at a cell, no later step
\* changes the grid entry of that cell or the tile there; a step changes only
\* grid entries of neighbours of the current cell that are empty in the target.
C8_ForwardOnly ==
    [][ /\ \A c \in Range(placed) :
              /\ wangIds'[c] = wangIds[c]
              /\ cellAt(target', PSub(c, targetPos)) = cellAt(target, PSub(c, targetPos))
        /\ pc = "fill" =>
              \A p \in World : wangIds'[p] # wangIds[p] =>
                  /\ \E i \in Indexes : p = Neighbour(<<cx, cy>>, i)
                  /\ isEmpty(cellAt(target, PSub(p, targetPos))) ]_vars

\* A second tile was placed next to the first, whose grid entry is unchanged.
C8_Witness ==
    /\ Len(placed) >= 2
    /\ \E i \in Indexes : placed[2] = Neighbour(placed[1], i)
    /\ wangIds[placed[1]] # ZeroWangId

\* C9: when findBestMatch finds no tile for a cell, the step leaves the target
\* and the grid as they are and goes on to the next cell; fillRegion ends only
\* when every region cell has been visited, each once.
C9_FailureIsLocal ==
    [][ /\ (pc = "fill" /\ bmResult'.tile = 0) =>
              /\ target' = target
              /\ wangIds' = wangIds
              /\ visited' = Append(visited, <<cx, cy>>)
        /\ pc' = "done" =>
              /\ Range(visited') = Cells
              /\ Len(visited') = Cardinality(Cells) ]_vars

\* A cell was skipped and a later cell of the region got a tile.
C9_Witness ==
    /\ pc = "done"
    /\ \E a \in 1 .. Len(visited) : \E b \in 1 .. Len(visited) :
          /\ a < b
          /\ visited[a] \notin Range(placed)
          /\ visited[b] \in Range(placed)

\* C10: when fillRegion returns, its caller has been told every region
\* coordinate that was left without a tile.
C10_UnplacedReported ==
    pc = "done" => reported = Cells \ Range(placed)

\* C14: with the set of exactly the tiles A (colour 1 in all 8 slots) and B
\* (colour 2 in all 8 slots), a region of one cell in a background of colour
\* 1 gets tile A whichever tile the picker returns: A is the only candidate
\* that passes the filter, B is never written, the cell is never left out.
C14_OnlyAFits ==
    (wangSet = CatAB /\ Cardinality(Cells) = 1 /\ UniformBackground(1)) =>
        /\ pc = "fill" =>
              /\ Passing(wangSet, wangIds[<<cx, cy>>]) = {wangSet.tiles[1]}
              /\ findBestMatch(wangSet, wangIds[<<cx, cy>>]) = {wangSet.tiles[1]}
        /\ pc = "done" =>
              \A c \in Cells :
                  /\ placed = <<c>>
                  /\ bmResult = wangSet.tiles[1]
                  /\ cellAt(target, PSub(c, targetPos)) = 1

\* The cell of such a fill holds tile A, the caller's grid having been empty.
C14_Witness ==
    /\ wangSet = CatAB /\ Cardinality(Cells) = 1 /\ UniformBackground(1)
    /\ pc = "done" /\ wangIds0 = EmptyGrid
    /\ \A c \in Cells : cellAt(target, PSub(c, targetPos)) = 1

\* a comes before b in the row-major order of the map.
RowMajorBefore(a, b) == a[2] < b[2] \/ (a[2] = b[2] /\ a[1] < b[1])

\* The index of the rectangle of the region that holds p.
RectOf(p) == CHOOSE k \in 1 .. Len(region) : RectContains(region[k], p)

\* C15, as claimed: the wavefront loop visits every region cell exactly once,
\* and of any two region cells the one that is first in the row-major order
\* of the map is visited first.
C15_GlobalRowMajor ==
    /\ \A a \in 1 .. Len(visited) : \A b \in 1 .. Len(visited) :
          a < b => RowMajorBefore(visited[a], visited[b])
    /\ pc = "done" => Range(visited) = Cells

\* C15: the wavefront loop visits every region cell exactly once, rectangle
\* after rectangle in the order of the region, and row-major within each
\* rectangle: of two cells of one rectangle the one with the smaller y, or
\* with equal y and smaller x, is visited first; of two cells of different
\* rectangles the one of the earlier rectangle is visited first.
C15_RowMajorPerRectangle ==
    /\ \A a \in 1 .. Len(visited) : \A b \in 1 .. Len(visited) :
          a < b =>
              \/ RectOf(visited[a]) < RectOf(visited[b])
              \/ /\ RectOf(visited[a]) = RectOf(visited[b])
                 /\ RowMajorBefore(visited[a], visited[b])
    /\ pc = "done" => Range(visited) = Cells

\* Two rectangles of one band two rows high, both visited: the second row of
\* the first rectangle before the first row of the second.
C15_Witness ==
    /\ pc = "done" /\ Len(region) = 2
    /\ region[1].top = region[2].top
    /\ region[1].bottom > region[1].top
    /\ \E a \in 1 .. Len(visited) : \E b \in 1 .. Len(visited) :
          a < b /\ visited[a][2] > visited[b][2]

\* C16: in the step that writes tile t at the cell c, for every index i whose
\* neighbour n of c is empty in the target, the grid entry of n gets in slot
\* oppositeIndex(i) the colour t has in slot i; the grid entries of the
\* neighbours that hold a tile stay as they are.
C16_PropagationSetsFacingSlot ==
    [][ placed' # placed =>
            \A i \in Indexes :
                LET n == Neighbour(<<cx, cy>>, i)
                IN  IF isEmpty(cellAt(target', PSub(n, targetPos)))
                    THEN wangIds'[n][oppositeIndex(i)] = bmResult'.wangId[i]
                    ELSE wangIds'[n] = wangIds[n] ]_vars

\* The last step wrote a tile at a cell with a neighbour that holds a tile
\* and a diagonal neighbour that is empty and whose grid entry got a colour.
C16_Witness ==
    /\ placed # <<>> /\ bmResult.tile # 0
    /\ LET c == placed[Len(placed)]
       IN  /\ visited[Len(visited)] = c
           /\ \E j \in Indexes : ~isEmpty(cellAt(target, PSub(Neighbour(c, j), targetPos)))
           /\ isEmpty(cellAt(target, PSub(Neighbour(c, 7), targetPos)))
           /\ bmResult.wangId[7] # 0
           /\ wangIds[Neighbour(c, 7)][3] = bmResult.wangId[7]

\* C17: border seeding changes a slot of the grid only if it is the slot of
\* a region cell that faces an orthogonal neighbour outside the region; every
\* other slot of every entry is as the caller passed it, and a cell with
\* several outside neighbours has each of these sides seeded.
C17_SeedingKeepsOtherSlots ==
    (pc = "fill" /\ visited = <<>>) =>
        /\ \A p \in World : \A i \in Indexes :
              wangIds[p][i] # wangIds0[p][i] =>
                  /\ p \in Cells /\ i \in Orthogonal
                  /\ ~contains(region, Neighbour(p, i))
        /\ \A c \in Cells : \A d \in Orthogonal :
              (~contains(region, Neighbour(c, d)) /\ BackWangId(Neighbour(c, d)) # ZeroWangId)
                  => wangIds[c][d] # 0

\* Border seeding done on a grid the caller had set: a cell with two outside
\* neighbours and one neighbour in the region has both sides seeded from the
\* background and keeps the caller's colour on the side of the region.
C17_Witness ==
    /\ pc = "fill" /\ visited = <<>> /\ wangIds0 # EmptyGrid
    /\ \E c \in Cells : \E d \in Orthogonal : \E e \in Orthogonal : \E f \in Orthogonal :
          /\ d # e
          /\ ~contains(region, Neighbour(c, d)) /\ ~contains(region, Neighbour(c, e))
          /\ contains(region, Neighbour(c, f))
          /\ wangIds[c][d] # wangIds0[c][d] /\ wangIds[c][e] # wangIds0[c][e]
          /\ wangIds[c][f] = wangIds0[c][f] /\ wangIds0[c][f] # 0

\* C18: getSurroundingPoints gives the 8 points around a point in the order
\* N, NE, E, SE, S, SW, W, NW, and the point is the neighbour at index
\* oppositeIndex(i) of its neighbour at index i.
C18_SurroundingPointsOrder ==
    pc = "fill" =>
        LET points == getSurroundingPoints(<<cx, cy>>)
        IN  /\ points[0] = <<cx, cy - 1>>     /\ points[1] = <<cx + 1, cy - 1>>
            /\ points[2] = <<cx + 1, cy>>     /\ points[3] = <<cx + 1, cy + 1>>
            /\ points[4] = <<cx, cy + 1>>     /\ points[5] = <<cx - 1, cy + 1>>
            /\ points[6] = <<cx - 1, cy>>     /\ points[7] = <<cx - 1, cy - 1>>
            /\ \A i \in Indexes :
                  getSurroundingPoints(points[i])[oppositeIndex(i)] = <<cx, cy>>

\* The loop is at a cell whose grid entry holds, in the slot facing the cell
\* written before it, the colour that cell's tile has towards it.
C18_Witness ==
    /\ pc = "fill" /\ placed # <<>>
    /\ \E i \in Indexes :
          /\ getSurroundingPoints(placed[Len(placed)])[i] = <<cx, cy>>
          /\ TargetWangId(placed[Len(placed)])[i] # 0
          /\ wangIds[<<cx, cy>>][oppositeIndex(i)] = TargetWangId(placed[Len(placed)])[i]

\* C19: a step of fillRegion changes no cell of the background, and changes
\* the target only at the cell the loop is at, a cell of the region.
C19_WritesOnlyRegionCells ==
    [][ /\ back' = back
        /\ DOMAIN target' = DOMAIN target
        /\ \A q \in DOMAIN target :
              target'[q] # target[q] =>
                  /\ PAdd(q, targetPos) = <<cx, cy>>
                  /\ PAdd(q, targetPos) \in Cells ]_vars

\* A fill into a target layer at an offset has ended, tiles written, the
\* target outside the region as it was.
C19_Witness ==
    /\ pc = "done" /\ targetPos # <<0, 0>> /\ target # target0
    /\ \A q \in DOMAIN target : PAdd(q, targetPos) \notin Cells => target[q] = target0[q]

(***************************************************************************)
(* Properties of findFittingCell.                                          *)
(***************************************************************************)
\* The tiles of the set that agree with the WangId the 8 cells around
\* fitPoint give.
Matching ==
    {t \in TileSet(wangSet) : Agrees(t.wangId, wangIdFromSurroundings(fitPoint))}

\* Some tile of the set agrees with wangId on every slot wangId fixes.
Realizable(wangId) == \E u \in TileSet(wangSet) : Agrees(u.wangId, wangId)

\* With t at fitPoint, every empty cell around fitPoint can still get a tile.
PassesLookahead(t) ==
    \A i \in Indexes :
        LET n == Neighbour(fitPoint, i)
        IN  isEmpty(getCell(n)) =>
                Realizable([wangIdFromSurroundings(n) EXCEPT
                               ![oppositeIndex(i)] = t.wangId[i]])

\* C11: findFittingCell returns the empty cell exactly when no tile of the
\* set matches the WangId of the surroundings; when some tile matches it
\* returns one of the matching tiles, for a complete set and for an
\* incomplete one, also when every matching tile fails the check of the
\* adjacent points.
C11_NoneIffNoCandidate ==
    pc = "fitted" =>
        /\ isEmpty(fitResult) <=> Matching = {}
        /\ Matching # {} => fitResult \in {t.tile : t \in Matching}

\* An incomplete set, several matching tiles, each failing the check: a tile
\* was returned all the same.
C11_Witness ==
    /\ pc = "fitted" /\ ~isComplete(wangSet)
    /\ Cardinality(Matching) >= 2
    /\ \A t \in Matching : ~PassesLookahead(t)
    /\ ~isEmpty(fitResult)

\* C12: on an incomplete set with a matching tile, findFittingCell returns a
\* tile that passes the check of the adjacent points whenever a matching tile
\* passes it; when none passes it returns the tile drawn last, and then every
\* matching tile has been drawn, each once.
C12_LookaheadPrefersPassing ==
    (pc = "fitted" /\ ~isComplete(wangSet) /\ Matching # {}) =>
        LET good == {t \in Matching : PassesLookahead(t)}
        IN  /\ fitResult = fitWangTile.tile
            /\ fitWangTile \in Matching
            /\ good # {} => fitWangTile \in good
            /\ good = {} =>
                  /\ wangTiles = <<>>
                  /\ draws = Cardinality(Matching)
                  /\ drawn = {t.tile : t \in Matching}

\* A tile that fails the check was drawn first, then one that passes it was
\* drawn and returned, tiles being left in the picker.
C12_Witness ==
    /\ pc = "fitted" /\ ~isComplete(wangSet)
    /\ draws >= 2 /\ wangTiles # <<>>
    /\ PassesLookahead(fitWangTile)
    /\ fitResult = fitWangTile.tile

\* C20: every call comes to its end: the while loop of findFittingCell
\* makes no more draws than there are matching tiles, the wavefront loop of
\* fillRegion makes no more visits than the region has cells, and the call
\* returns.
C20_EveryCallTerminates ==
    /\ [][ /\ draws' <= Cardinality(Matching)
           /\ Len(visited') <= Cardinality(Cells) ]_vars
    /\ <>(pc \in {"done", "fitted"})

\* findFittingCell has returned after drawing each of three matching tiles.
C20_Witness ==
    /\ pc = "fitted" /\ draws = 3 /\ wangTiles = <<>>
    /\ Cardinality(Matching) = 3

====
